---- MODULE Spec2Model ----
\* A model of backend/main.py of ai-mood-board: the mood classifier with its
\* keyword heuristic, the palette selector, the color namer, the image
\* compositor with its fallback chain, the image-model handle and the
\* example-prompt endpoint.
\*
\* Text that the program inspects character by character (descriptions,
\* keywords, prompts, hex colors) is a sequence of one-character strings;
\* text the program only passes along (inspiration sentences, example prompts,
\* mood labels used as dictionary keys, "source" values) is a TLA+ string.
\* A Python dict is a function whose DOMAIN is the set of keys present.
EXTENDS Integers, Sequences, FiniteSets, TLC

----------------------------------------------------------------------------
\* Bounds of the model.

\* Longest description, in vocabulary words.
MaxWords == 2
\* Largest count passed to GET /api/images.
MaxCount == 1
\* Longest classifier response text, in tokens.
MaxTokens == 3

----------------------------------------------------------------------------
\* Python str operations, on sequences of one-character strings.

UpperAlpha == <<"A","B","C","D","E","F","G","H","I","J","K","L","M",
                "N","O","P","Q","R","S","T","U","V","W","X","Y","Z">>
LowerAlpha == <<"a","b","c","d","e","f","g","h","i","j","k","l","m",
                "n","o","p","q","r","s","t","u","v","w","x","y","z">>
Digits == <<"0","1","2","3","4","5","6","7","8","9">>

Range(s) == {s[i] : i \in 1..Len(s)}

\* The element of a one-element set. The({F(x) : x \in {e}}) is F(e) with e
\* evaluated once, as a local variable assigned once is.
The(S) == CHOOSE x \in S : TRUE

IndexIn(seq, c) == CHOOSE i \in 1..Len(seq) : seq[i] = c

UpperLetters == Range(UpperAlpha)
LowerLetters == Range(LowerAlpha)

\* str.lower() and str.upper()
LowerCh(c) == IF c \in UpperLetters THEN LowerAlpha[IndexIn(UpperAlpha, c)] ELSE c
UpperCh(c) == IF c \in LowerLetters THEN UpperAlpha[IndexIn(LowerAlpha, c)] ELSE c
Lower(s) == SubSeq([i \in 1..Len(s) |-> LowerCh(s[i])], 1, Len(s))
Upper(s) == SubSeq([i \in 1..Len(s) |-> UpperCh(s[i])], 1, Len(s))

\* sub in s
Contains(sub, s) ==
  \E i \in 0..(Len(s) - Len(sub)) : SubSeq(s, i + 1, i + Len(sub)) = sub

\* s.startswith(prefix)
StartsWith(s, prefix) ==
  Len(s) >= Len(prefix) /\ SubSeq(s, 1, Len(prefix)) = prefix

\* s.find(c) and s.rfind(c) for a one-element c, as Python's 0-based index, -1 if absent
Find(s, c) ==
  IF \E i \in 1..Len(s) : s[i] = c
  THEN (CHOOSE i \in 1..Len(s) : s[i] = c /\ \A j \in 1..(i - 1) : s[j] # c) - 1
  ELSE -1
RFind(s, c) ==
  IF \E i \in 1..Len(s) : s[i] = c
  THEN (CHOOSE i \in 1..Len(s) : s[i] = c /\ \A j \in (i + 1)..Len(s) : s[j] # c) - 1
  ELSE -1

\* s[a:b] for 0 <= a, 0 <= b
Slice(s, a, b) ==
  LET hi == IF b > Len(s) THEN Len(s) ELSE b
  IN  IF a >= hi THEN <<>> ELSE SubSeq(s, a + 1, hi)

\* sep.join(parts)
RECURSIVE Join(_, _)
Join(sep, parts) ==
  IF Len(parts) = 0 THEN <<>>
  ELSE IF Len(parts) = 1 THEN parts[1]
  ELSE parts[1] \o sep \o Join(sep, Tail(parts))

IsSpace(c) == c \in {" ", "\t", "\n"}
WordChars == LowerLetters \cup UpperLetters \cup Range(Digits) \cup {"_"}
IsWordCh(c) == c \in WordChars

\* The maximal runs of the characters of s at the positions in keep, in
\* order; starts are the positions where a run begins.
RunsFrom(s, keep, starts) ==
  [n \in 1..Cardinality(starts) |->
     SubSeq(s,
            CHOOSE i \in starts : Cardinality({j \in starts : j < i}) = n - 1,
            CHOOSE j \in keep :
              /\ (j + 1) \notin keep
              /\ Cardinality({i \in starts : i <= j}) = n)]
Runs(s, keep) ==
  The({RunsFrom(s, keep, starts) : starts \in {{i \in keep : (i - 1) \notin keep}}})

\* s.split(): the maximal runs of non-whitespace characters
Split(s) ==
  The({Runs(s, keep) : keep \in {{i \in 1..Len(s) : ~IsSpace(s[i])}}})

\* re.findall(r'\b\w+\b', s): the maximal runs of word characters
FindAllWords(s) ==
  The({Runs(s, keep) : keep \in {{i \in 1..Len(s) : IsWordCh(s[i])}}})

\* seq[:n]
Take(seq, n) == SubSeq(seq, 1, IF n < Len(seq) THEN n ELSE Len(seq))

\* [x for x in seq if x in keepSet], order kept
RECURSIVE Filter(_, _)
Filter(seq, keepSet) ==
  IF Len(seq) = 0 THEN <<>>
  ELSE IF Head(seq) \in keepSet THEN <<Head(seq)>> \o Filter(Tail(seq), keepSet)
  ELSE Filter(Tail(seq), keepSet)

----------------------------------------------------------------------------
\* The tables of the program.

\* MOOD_COLORS (main.py:107-156): per mood, in declaration order, 4 variants of 5 hex colors.
MOOD_COLORS ==
  <<
    [mood |-> "romantic", variants |-> <<
       \* #FF6B9D #FFB3D1 #FFE5F1 #8B5A96 #4A4A4A
       << <<"#","F","F","6","B","9","D">>,
          <<"#","F","F","B","3","D","1">>,
          <<"#","F","F","E","5","F","1">>,
          <<"#","8","B","5","A","9","6">>,
          <<"#","4","A","4","A","4","A">> >>,
       \* #FF1493 #FF69B4 #FFB6C1 #C71585 #DB7093
       << <<"#","F","F","1","4","9","3">>,
          <<"#","F","F","6","9","B","4">>,
          <<"#","F","F","B","6","C","1">>,
          <<"#","C","7","1","5","8","5">>,
          <<"#","D","B","7","0","9","3">> >>,
       \* #FF007F #FF69B4 #FFC0CB #DC143C #FF1493
       << <<"#","F","F","0","0","7","F">>,
          <<"#","F","F","6","9","B","4">>,
          <<"#","F","F","C","0","C","B">>,
          <<"#","D","C","1","4","3","C">>,
          <<"#","F","F","1","4","9","3">> >>,
       \* #FF69B4 #FFB6C1 #FFC0CB #FF1493 #C71585
       << <<"#","F","F","6","9","B","4">>,
          <<"#","F","F","B","6","C","1">>,
          <<"#","F","F","C","0","C","B">>,
          <<"#","F","F","1","4","9","3">>,
          <<"#","C","7","1","5","8","5">> >> >>],
    [mood |-> "peaceful", variants |-> <<
       \* #87CEEB #98FB98 #F0E68C #DDA0DD #F5F5DC
       << <<"#","8","7","C","E","E","B">>,
          <<"#","9","8","F","B","9","8">>,
          <<"#","F","0","E","6","8","C">>,
          <<"#","D","D","A","0","D","D">>,
          <<"#","F","5","F","5","D","C">> >>,
       \* #B0E0E6 #98FB98 #F0E68C #DDA0DD #F0F8FF
       << <<"#","B","0","E","0","E","6">>,
          <<"#","9","8","F","B","9","8">>,
          <<"#","F","0","E","6","8","C">>,
          <<"#","D","D","A","0","D","D">>,
          <<"#","F","0","F","8","F","F">> >>,
       \* #ADD8E6 #90EE90 #F0E68C #DDA0DD #F5F5DC
       << <<"#","A","D","D","8","E","6">>,
          <<"#","9","0","E","E","9","0">>,
          <<"#","F","0","E","6","8","C">>,
          <<"#","D","D","A","0","D","D">>,
          <<"#","F","5","F","5","D","C">> >>,
       \* #87CEEB #98FB98 #F0E68C #E6E6FA #F0F8FF
       << <<"#","8","7","C","E","E","B">>,
          <<"#","9","8","F","B","9","8">>,
          <<"#","F","0","E","6","8","C">>,
          <<"#","E","6","E","6","F","A">>,
          <<"#","F","0","F","8","F","F">> >> >>],
    [mood |-> "energetic", variants |-> <<
       \* #FF4500 #FFD700 #32CD32 #4169E1 #FF1493
       << <<"#","F","F","4","5","0","0">>,
          <<"#","F","F","D","7","0","0">>,
          <<"#","3","2","C","D","3","2">>,
          <<"#","4","1","6","9","E","1">>,
          <<"#","F","F","1","4","9","3">> >>,
       \* #FF6347 #FFD700 #00FF00 #1E90FF #FF1493
       << <<"#","F","F","6","3","4","7">>,
          <<"#","F","F","D","7","0","0">>,
          <<"#","0","0","F","F","0","0">>,
          <<"#","1","E","9","0","F","F">>,
          <<"#","F","F","1","4","9","3">> >>,
       \* #FF4500 #FFFF00 #00FF7F #4169E1 #FF1493
       << <<"#","F","F","4","5","0","0">>,
          <<"#","F","F","F","F","0","0">>,
          <<"#","0","0","F","F","7","F">>,
          <<"#","4","1","6","9","E","1">>,
          <<"#","F","F","1","4","9","3">> >>,
       \* #FF6347 #FFD700 #32CD32 #1E90FF #FF1493
       << <<"#","F","F","6","3","4","7">>,
          <<"#","F","F","D","7","0","0">>,
          <<"#","3","2","C","D","3","2">>,
          <<"#","1","E","9","0","F","F">>,
          <<"#","F","F","1","4","9","3">> >> >>],
    [mood |-> "melancholic", variants |-> <<
       \* #2F4F4F #696969 #708090 #B0C4DE #E6E6FA
       << <<"#","2","F","4","F","4","F">>,
          <<"#","6","9","6","9","6","9">>,
          <<"#","7","0","8","0","9","0">>,
          <<"#","B","0","C","4","D","E">>,
          <<"#","E","6","E","6","F","A">> >>,
       \* #4A4A4A #696969 #708090 #B0C4DE #F0F8FF
       << <<"#","4","A","4","A","4","A">>,
          <<"#","6","9","6","9","6","9">>,
          <<"#","7","0","8","0","9","0">>,
          <<"#","B","0","C","4","D","E">>,
          <<"#","F","0","F","8","F","F">> >>,
       \* #2F4F4F #696969 #778899 #B0C4DE #E6E6FA
       << <<"#","2","F","4","F","4","F">>,
          <<"#","6","9","6","9","6","9">>,
          <<"#","7","7","8","8","9","9">>,
          <<"#","B","0","C","4","D","E">>,
          <<"#","E","6","E","6","F","A">> >>,
       \* #4A4A4A #696969 #708090 #C0C0C0 #F0F8FF
       << <<"#","4","A","4","A","4","A">>,
          <<"#","6","9","6","9","6","9">>,
          <<"#","7","0","8","0","9","0">>,
          <<"#","C","0","C","0","C","0">>,
          <<"#","F","0","F","8","F","F">> >> >>],
    [mood |-> "nature", variants |-> <<
       \* #228B22 #8FBC8F #F4A460 #DEB887 #CD853F
       << <<"#","2","2","8","B","2","2">>,
          <<"#","8","F","B","C","8","F">>,
          <<"#","F","4","A","4","6","0">>,
          <<"#","D","E","B","8","8","7">>,
          <<"#","C","D","8","5","3","F">> >>,
       \* #32CD32 #90EE90 #F4A460 #DEB887 #D2691E
       << <<"#","3","2","C","D","3","2">>,
          <<"#","9","0","E","E","9","0">>,
          <<"#","F","4","A","4","6","0">>,
          <<"#","D","E","B","8","8","7">>,
          <<"#","D","2","6","9","1","E">> >>,
       \* #228B22 #98FB98 #F4A460 #DEB887 #CD853F
       << <<"#","2","2","8","B","2","2">>,
          <<"#","9","8","F","B","9","8">>,
          <<"#","F","4","A","4","6","0">>,
          <<"#","D","E","B","8","8","7">>,
          <<"#","C","D","8","5","3","F">> >>,
       \* #32CD32 #8FBC8F #F4A460 #D2B48C #CD853F
       << <<"#","3","2","C","D","3","2">>,
          <<"#","8","F","B","C","8","F">>,
          <<"#","F","4","A","4","6","0">>,
          <<"#","D","2","B","4","8","C">>,
          <<"#","C","D","8","5","3","F">> >> >>],
    [mood |-> "urban", variants |-> <<
       \* #708090 #2F4F4F #FF6347 #FFD700 #4169E1
       << <<"#","7","0","8","0","9","0">>,
          <<"#","2","F","4","F","4","F">>,
          <<"#","F","F","6","3","4","7">>,
          <<"#","F","F","D","7","0","0">>,
          <<"#","4","1","6","9","E","1">> >>,
       \* #696969 #2F4F4F #FF6347 #FFD700 #1E90FF
       << <<"#","6","9","6","9","6","9">>,
          <<"#","2","F","4","F","4","F">>,
          <<"#","F","F","6","3","4","7">>,
          <<"#","F","F","D","7","0","0">>,
          <<"#","1","E","9","0","F","F">> >>,
       \* #708090 #4A4A4A #FF6347 #FFFF00 #4169E1
       << <<"#","7","0","8","0","9","0">>,
          <<"#","4","A","4","A","4","A">>,
          <<"#","F","F","6","3","4","7">>,
          <<"#","F","F","F","F","0","0">>,
          <<"#","4","1","6","9","E","1">> >>,
       \* #696969 #2F4F4F #FF4500 #FFD700 #1E90FF
       << <<"#","6","9","6","9","6","9">>,
          <<"#","2","F","4","F","4","F">>,
          <<"#","F","F","4","5","0","0">>,
          <<"#","F","F","D","7","0","0">>,
          <<"#","1","E","9","0","F","F">> >> >>],
    [mood |-> "vintage", variants |-> <<
       \* #8B4513 #DEB887 #F4A460 #D2B48C #CD853F
       << <<"#","8","B","4","5","1","3">>,
          <<"#","D","E","B","8","8","7">>,
          <<"#","F","4","A","4","6","0">>,
          <<"#","D","2","B","4","8","C">>,
          <<"#","C","D","8","5","3","F">> >>,
       \* #A0522D #DEB887 #F4A460 #D2B48C #D2691E
       << <<"#","A","0","5","2","2","D">>,
          <<"#","D","E","B","8","8","7">>,
          <<"#","F","4","A","4","6","0">>,
          <<"#","D","2","B","4","8","C">>,
          <<"#","D","2","6","9","1","E">> >>,
       \* #8B4513 #F5DEB3 #F4A460 #D2B48C #CD853F
       << <<"#","8","B","4","5","1","3">>,
          <<"#","F","5","D","E","B","3">>,
          <<"#","F","4","A","4","6","0">>,
          <<"#","D","2","B","4","8","C">>,
          <<"#","C","D","8","5","3","F">> >>,
       \* #A0522D #DEB887 #F4A460 #F5DEB3 #CD853F
       << <<"#","A","0","5","2","2","D">>,
          <<"#","D","E","B","8","8","7">>,
          <<"#","F","4","A","4","6","0">>,
          <<"#","F","5","D","E","B","3">>,
          <<"#","C","D","8","5","3","F">> >> >>],
    [mood |-> "modern", variants |-> <<
       \* #000000 #FFFFFF #808080 #C0C0C0 #FF6B35
       << <<"#","0","0","0","0","0","0">>,
          <<"#","F","F","F","F","F","F">>,
          <<"#","8","0","8","0","8","0">>,
          <<"#","C","0","C","0","C","0">>,
          <<"#","F","F","6","B","3","5">> >>,
       \* #2F2F2F #FFFFFF #808080 #C0C0C0 #FF6347
       << <<"#","2","F","2","F","2","F">>,
          <<"#","F","F","F","F","F","F">>,
          <<"#","8","0","8","0","8","0">>,
          <<"#","C","0","C","0","C","0">>,
          <<"#","F","F","6","3","4","7">> >>,
       \* #000000 #F5F5F5 #808080 #C0C0C0 #FF6B35
       << <<"#","0","0","0","0","0","0">>,
          <<"#","F","5","F","5","F","5">>,
          <<"#","8","0","8","0","8","0">>,
          <<"#","C","0","C","0","C","0">>,
          <<"#","F","F","6","B","3","5">> >>,
       \* #2F2F2F #FFFFFF #696969 #C0C0C0 #FF6347
       << <<"#","2","F","2","F","2","F">>,
          <<"#","F","F","F","F","F","F">>,
          <<"#","6","9","6","9","6","9">>,
          <<"#","C","0","C","0","C","0">>,
          <<"#","F","F","6","3","4","7">> >> >>]
  >>

\* mood_keywords (main.py:222-231): per mood, in declaration order, the keyword list.
mood_keywords ==
  <<
    \* romantic love heart flower candle wine passion romance
    [mood |-> "romantic", keywords |-> <<
       <<"r","o","m","a","n","t","i","c">>,
       <<"l","o","v","e">>,
       <<"h","e","a","r","t">>,
       <<"f","l","o","w","e","r">>,
       <<"c","a","n","d","l","e">>,
       <<"w","i","n","e">>,
       <<"p","a","s","s","i","o","n">>,
       <<"r","o","m","a","n","c","e">> >>],
    \* peaceful calm serene meditation yoga tranquil quiet
    [mood |-> "peaceful", keywords |-> <<
       <<"p","e","a","c","e","f","u","l">>,
       <<"c","a","l","m">>,
       <<"s","e","r","e","n","e">>,
       <<"m","e","d","i","t","a","t","i","o","n">>,
       <<"y","o","g","a">>,
       <<"t","r","a","n","q","u","i","l">>,
       <<"q","u","i","e","t">> >>],
    \* energetic dynamic vibrant active sport energetic lively
    [mood |-> "energetic", keywords |-> <<
       <<"e","n","e","r","g","e","t","i","c">>,
       <<"d","y","n","a","m","i","c">>,
       <<"v","i","b","r","a","n","t">>,
       <<"a","c","t","i","v","e">>,
       <<"s","p","o","r","t">>,
       <<"e","n","e","r","g","e","t","i","c">>,
       <<"l","i","v","e","l","y">> >>],
    \* melancholic sad nostalgic melancholy sorrow blue
    [mood |-> "melancholic", keywords |-> <<
       <<"m","e","l","a","n","c","h","o","l","i","c">>,
       <<"s","a","d">>,
       <<"n","o","s","t","a","l","g","i","c">>,
       <<"m","e","l","a","n","c","h","o","l","y">>,
       <<"s","o","r","r","o","w">>,
       <<"b","l","u","e">> >>],
    \* nature forest sea mountain flower tree outdoor natural
    [mood |-> "nature", keywords |-> <<
       <<"n","a","t","u","r","e">>,
       <<"f","o","r","e","s","t">>,
       <<"s","e","a">>,
       <<"m","o","u","n","t","a","i","n">>,
       <<"f","l","o","w","e","r">>,
       <<"t","r","e","e">>,
       <<"o","u","t","d","o","o","r">>,
       <<"n","a","t","u","r","a","l">> >>],
    \* urban city modern building street metropolitan downtown
    [mood |-> "urban", keywords |-> <<
       <<"u","r","b","a","n">>,
       <<"c","i","t","y">>,
       <<"m","o","d","e","r","n">>,
       <<"b","u","i","l","d","i","n","g">>,
       <<"s","t","r","e","e","t">>,
       <<"m","e","t","r","o","p","o","l","i","t","a","n">>,
       <<"d","o","w","n","t","o","w","n">> >>],
    \* vintage retro old classic nostalgic antique traditional
    [mood |-> "vintage", keywords |-> <<
       <<"v","i","n","t","a","g","e">>,
       <<"r","e","t","r","o">>,
       <<"o","l","d">>,
       <<"c","l","a","s","s","i","c">>,
       <<"n","o","s","t","a","l","g","i","c">>,
       <<"a","n","t","i","q","u","e">>,
       <<"t","r","a","d","i","t","i","o","n","a","l">> >>],
    \* modern minimalist clean simple contemporary sleek
    [mood |-> "modern", keywords |-> <<
       <<"m","o","d","e","r","n">>,
       <<"m","i","n","i","m","a","l","i","s","t">>,
       <<"c","l","e","a","n">>,
       <<"s","i","m","p","l","e">>,
       <<"c","o","n","t","e","m","p","o","r","a","r","y">>,
       <<"s","l","e","e","k">> >>]
  >>

\* inspiration_phrases (main.py:249-258).
inspiration_phrases ==
  <<
    [mood |-> "romantic",
     text |-> "The dance of love and passion, in harmony with your heart's rhythm"],
    [mood |-> "peaceful",
     text |-> "The silent call of tranquility, soothing your soul"],
    [mood |-> "energetic",
     text |-> "The excitement of energy, reflecting life's dynamic flow"],
    [mood |-> "melancholic",
     text |-> "In the depths of melancholy lies the hidden treasure of beauty"],
    [mood |-> "nature",
     text |-> "The pure beauty of nature, renewing your spirit"],
    [mood |-> "urban",
     text |-> "The modern rhythm of the city, carrying life's dynamic energy"],
    [mood |-> "vintage",
     text |-> "The elegance of the past meets today's creativity"],
    [mood |-> "modern",
     text |-> "The minimal elegance of modernity, exploring the boundaries of creativity"]
  >>

\* color_map (main.py:338-357): reference colors in declaration order.
color_map ==
  <<
    [hex |-> <<"#","F","F","0","0","0","0">>, name |-> <<"r","e","d">>],
    [hex |-> <<"#","0","0","F","F","0","0">>, name |-> <<"g","r","e","e","n">>],
    [hex |-> <<"#","0","0","0","0","F","F">>, name |-> <<"b","l","u","e">>],
    [hex |-> <<"#","F","F","F","F","0","0">>, name |-> <<"y","e","l","l","o","w">>],
    [hex |-> <<"#","F","F","0","0","F","F">>, name |-> <<"m","a","g","e","n","t","a">>],
    [hex |-> <<"#","0","0","F","F","F","F">>, name |-> <<"c","y","a","n">>],
    [hex |-> <<"#","F","F","A","5","0","0">>, name |-> <<"o","r","a","n","g","e">>],
    [hex |-> <<"#","F","F","6","3","4","7">>, name |-> <<"c","o","r","a","l">>],
    [hex |-> <<"#","F","F","4","5","0","0">>, name |-> <<"o","r","a","n","g","e"," ","r","e","d">>],
    [hex |-> <<"#","F","F","D","7","0","0">>, name |-> <<"g","o","l","d","e","n">>],
    [hex |-> <<"#","F","F","6","9","B","4">>, name |-> <<"p","i","n","k">>],
    [hex |-> <<"#","F","F","C","0","C","B">>, name |-> <<"l","i","g","h","t"," ","p","i","n","k">>],
    [hex |-> <<"#","A","5","2","A","2","A">>, name |-> <<"b","r","o","w","n">>],
    [hex |-> <<"#","8","B","4","5","1","3">>, name |-> <<"s","a","d","d","l","e"," ","b","r","o","w","n">>],
    [hex |-> <<"#","8","0","0","0","8","0">>, name |-> <<"p","u","r","p","l","e">>],
    [hex |-> <<"#","8","A","2","B","E","2">>, name |-> <<"b","l","u","e"," ","v","i","o","l","e","t">>],
    [hex |-> <<"#","4","1","6","9","E","1">>, name |-> <<"r","o","y","a","l"," ","b","l","u","e">>],
    [hex |-> <<"#","8","7","C","E","E","B">>, name |-> <<"s","k","y"," ","b","l","u","e">>],
    [hex |-> <<"#","B","0","E","0","E","6">>, name |-> <<"p","o","w","d","e","r"," ","b","l","u","e">>],
    [hex |-> <<"#","2","0","B","2","A","A">>, name |-> <<"l","i","g","h","t"," ","s","e","a"," ","g","r","e","e","n">>],
    [hex |-> <<"#","3","2","C","D","3","2">>, name |-> <<"l","i","m","e"," ","g","r","e","e","n">>],
    [hex |-> <<"#","9","8","F","B","9","8">>, name |-> <<"p","a","l","e"," ","g","r","e","e","n">>],
    [hex |-> <<"#","0","0","0","0","0","0">>, name |-> <<"b","l","a","c","k">>],
    [hex |-> <<"#","F","F","F","F","F","F">>, name |-> <<"w","h","i","t","e">>],
    [hex |-> <<"#","8","0","8","0","8","0">>, name |-> <<"g","r","a","y">>],
    [hex |-> <<"#","C","0","C","0","C","0">>, name |-> <<"s","i","l","v","e","r">>],
    [hex |-> <<"#","F","5","F","5","D","C">>, name |-> <<"b","e","i","g","e">>],
    [hex |-> <<"#","F","0","E","6","8","C">>, name |-> <<"k","h","a","k","i">>],
    [hex |-> <<"#","D","D","A","0","D","D">>, name |-> <<"p","l","u","m">>],
    [hex |-> <<"#","F","0","F","8","F","F">>, name |-> <<"a","l","i","c","e"," ","b","l","u","e">>]
  >>

\* category_map (main.py:451-459): per category, in declaration order, the word list.
category_map ==
  <<
    \* forest mountain sea ocean tree flower landscape
    [category |-> "nature", words |-> <<
       <<"f","o","r","e","s","t">>,
       <<"m","o","u","n","t","a","i","n">>,
       <<"s","e","a">>,
       <<"o","c","e","a","n">>,
       <<"t","r","e","e">>,
       <<"f","l","o","w","e","r">>,
       <<"l","a","n","d","s","c","a","p","e">> >>],
    \* city building street architecture modern
    [category |-> "urban", words |-> <<
       <<"c","i","t","y">>,
       <<"b","u","i","l","d","i","n","g">>,
       <<"s","t","r","e","e","t">>,
       <<"a","r","c","h","i","t","e","c","t","u","r","e">>,
       <<"m","o","d","e","r","n">> >>],
    \* love heart romantic candle wine rose
    [category |-> "romantic", words |-> <<
       <<"l","o","v","e">>,
       <<"h","e","a","r","t">>,
       <<"r","o","m","a","n","t","i","c">>,
       <<"c","a","n","d","l","e">>,
       <<"w","i","n","e">>,
       <<"r","o","s","e">> >>],
    \* calm serene peaceful meditation yoga
    [category |-> "peaceful", words |-> <<
       <<"c","a","l","m">>,
       <<"s","e","r","e","n","e">>,
       <<"p","e","a","c","e","f","u","l">>,
       <<"m","e","d","i","t","a","t","i","o","n">>,
       <<"y","o","g","a">> >>],
    \* sport fitness dynamic energetic active
    [category |-> "energetic", words |-> <<
       <<"s","p","o","r","t">>,
       <<"f","i","t","n","e","s","s">>,
       <<"d","y","n","a","m","i","c">>,
       <<"e","n","e","r","g","e","t","i","c">>,
       <<"a","c","t","i","v","e">> >>],
    \* retro vintage old classic nostalgic
    [category |-> "vintage", words |-> <<
       <<"r","e","t","r","o">>,
       <<"v","i","n","t","a","g","e">>,
       <<"o","l","d">>,
       <<"c","l","a","s","s","i","c">>,
       <<"n","o","s","t","a","l","g","i","c">> >>],
    \* modern minimalist clean simple contemporary
    [category |-> "modern", words |-> <<
       <<"m","o","d","e","r","n">>,
       <<"m","i","n","i","m","a","l","i","s","t">>,
       <<"c","l","e","a","n">>,
       <<"s","i","m","p","l","e">>,
       <<"c","o","n","t","e","m","p","o","r","a","r","y">> >>]
  >>

\* category_seeds (main.py:469-477).
category_seeds ==
  <<
    [category |-> "nature", seeds |-> <<100, 200, 300, 400, 500>>],
    [category |-> "urban", seeds |-> <<600, 700, 800, 900, 1000>>],
    [category |-> "romantic", seeds |-> <<1100, 1200, 1300, 1400, 1500>>],
    [category |-> "peaceful", seeds |-> <<1600, 1700, 1800, 1900, 2000>>],
    [category |-> "energetic", seeds |-> <<2100, 2200, 2300, 2400, 2500>>],
    [category |-> "vintage", seeds |-> <<2600, 2700, 2800, 2900, 3000>>],
    [category |-> "modern", seeds |-> <<3100, 3200, 3300, 3400, 3500>>]
  >>

\* prompt_categories[0] (main.py:570-622): per category, in declaration order, 5 prompts.
prompt_categories ==
  <<
    [category |-> "romantic", prompts |-> <<
       "I want to feel the magic of a candlelit dinner in Paris",
       "Looking for inspiration for a romantic wedding theme",
       "Create a mood board for a cozy date night at home",
       "I want to capture the feeling of a sunset beach walk",
       "Design inspiration for a romantic garden party" >>],
    [category |-> "peaceful", prompts |-> <<
       "I need a calming meditation space design",
       "Looking for peaceful nature retreat inspiration",
       "Create a serene bedroom atmosphere",
       "I want to feel the tranquility of a mountain lake",
       "Design a peaceful home office environment" >>],
    [category |-> "energetic", prompts |-> <<
       "I want to capture the energy of a music festival",
       "Looking for dynamic workout space inspiration",
       "Create a vibrant party atmosphere",
       "I want to feel the excitement of a sports event",
       "Design an energetic children's playroom" >>],
    [category |-> "nature", prompts |-> <<
       "I want to bring the forest into my living room",
       "Looking for ocean-inspired design elements",
       "Create a garden oasis in my backyard",
       "I want to feel connected to mountain landscapes",
       "Design a nature-themed workspace" >>],
    [category |-> "urban", prompts |-> <<
       "I want to capture the energy of a modern city",
       "Looking for industrial loft design inspiration",
       "Create a contemporary urban apartment feel",
       "I want to feel the rhythm of downtown life",
       "Design a sleek modern office space" >>],
    [category |-> "vintage", prompts |-> <<
       "I want to recreate the charm of the 1950s",
       "Looking for retro diner aesthetic inspiration",
       "Create a vintage photography studio feel",
       "I want to feel the nostalgia of old Hollywood",
       "Design a classic vintage kitchen" >>],
    [category |-> "modern", prompts |-> <<
       "I want a minimalist Scandinavian design",
       "Looking for clean modern architecture inspiration",
       "Create a sleek contemporary living space",
       "I want to feel the simplicity of modern art",
       "Design a futuristic smart home environment" >>]
  >>

\* fallback_prompts (main.py:640-646).
fallback_prompts ==
  <<
    "I want to feel like walking in the streets of Paris in autumn",
    "Looking for inspiration for a minimalist and modern office design",
    "I want to create a romantic dinner atmosphere",
    "A peaceful living space concept in harmony with nature",
    "An energetic and dynamic gym design"
  >>

\* prompt_variations (main.py:288-294): the fixed text that follows
\* "{search_query}, {color_description}" in each of the 5 templates.
prompt_suffixes ==
  <<
    \* " color theme, soft lighting, beautiful, high quality"
    <<" ","c","o","l","o","r"," ","t","h","e","m","e",","," ","s","o","f","t"," ","l","i","g","h","t","i","n","g",","," ","b","e","a","u","t","i","f","u","l",","," ","h","i","g","h"," ","q","u","a","l","i","t","y">>,
    \* " color palette, warm atmosphere, artistic, creative"
    <<" ","c","o","l","o","r"," ","p","a","l","e","t","t","e",","," ","w","a","r","m"," ","a","t","m","o","s","p","h","e","r","e",","," ","a","r","t","i","s","t","i","c",","," ","c","r","e","a","t","i","v","e">>,
    \* " color scheme, natural lighting, inspiring, detailed"
    <<" ","c","o","l","o","r"," ","s","c","h","e","m","e",","," ","n","a","t","u","r","a","l"," ","l","i","g","h","t","i","n","g",","," ","i","n","s","p","i","r","i","n","g",","," ","d","e","t","a","i","l","e","d">>,
    \* " color tones, ambient lighting, aesthetic, masterpiece"
    <<" ","c","o","l","o","r"," ","t","o","n","e","s",","," ","a","m","b","i","e","n","t"," ","l","i","g","h","t","i","n","g",","," ","a","e","s","t","h","e","t","i","c",","," ","m","a","s","t","e","r","p","i","e","c","e">>,
    \* " color harmony, golden hour lighting, elegant, professional"
    <<" ","c","o","l","o","r"," ","h","a","r","m","o","n","y",","," ","g","o","l","d","e","n"," ","h","o","u","r"," ","l","i","g","h","t","i","n","g",","," ","e","l","e","g","a","n","t",","," ","p","r","o","f","e","s","s","i","o","n","a","l">>
  >>

----------------------------------------------------------------------------
\* analyze_mood_fallback: the keyword heuristic.

\* the, and, with, for, like, feel, want, wanting
StopWords ==
  { <<"t","h","e">>,
    <<"a","n","d">>,
    <<"w","i","t","h">>,
    <<"f","o","r">>,
    <<"l","i","k","e">>,
    <<"f","e","e","l">>,
    <<"w","a","n","t">>,
    <<"w","a","n","t","i","n","g">> }

\* inspiration, creative, design
DefaultKeywords ==
  << <<"i","n","s","p","i","r","a","t","i","o","n">>,
     <<"c","r","e","a","t","i","v","e">>,
     <<"d","e","s","i","g","n">> >>

\* sum(1 for keyword in keywords if keyword in description_lower):
\* one per list position, so a keyword listed twice counts twice.
Score(keywords, description_lower) ==
  Cardinality({i \in 1..Len(keywords) : Contains(keywords[i], description_lower)})

\* The loop over mood_keywords.items(): a later mood replaces the detected one
\* only with a strictly greater score.
RECURSIVE DetectMood(_, _, _, _)
DetectStep(description_lower, i, detected_mood, max_score, score) ==
  IF score > max_score
  THEN DetectMood(description_lower, i + 1, mood_keywords[i].mood, score)
  ELSE DetectMood(description_lower, i + 1, detected_mood, max_score)
DetectMood(description_lower, i, detected_mood, max_score) ==
  IF i > Len(mood_keywords) THEN detected_mood
  ELSE The({DetectStep(description_lower, i, detected_mood, max_score, score) :
              score \in {Score(mood_keywords[i].keywords, description_lower)}})

\* inspiration_phrases.get(detected_mood, "Explore the boundaries of creativity")
InspirationOf(mood) ==
  IF \E i \in 1..Len(inspiration_phrases) : inspiration_phrases[i].mood = mood
  THEN inspiration_phrases[CHOOSE i \in 1..Len(inspiration_phrases) :
                             inspiration_phrases[i].mood = mood].text
  ELSE "Explore the boundaries of creativity"

\* filtered_words[:3] if filtered_words else ["inspiration", "creative", "design"]
FirstKeywords(filtered_words) ==
  IF Len(filtered_words) > 0 THEN Take(filtered_words, 3) ELSE DefaultKeywords

\* A variant of FilteredWords that keeps the words of 3 letters too.
FilteredWordsFrom3(words) ==
  Filter(words, {w \in Range(words) : Len(w) >= 3 /\ w \notin StopWords})

\* [word for word in words if len(word) > 3 and word not in [...]]
FilteredWords(words) ==
  Filter(words, {w \in Range(words) : Len(w) > 3 /\ w \notin StopWords})

ExtractKeywords(description_lower) ==
  The({FirstKeywords(filtered_words) :
         filtered_words \in {The({FilteredWords(words) :
                                    words \in {FindAllWords(description_lower)}})}})

\* the dict returned at lines 262-267
FallbackResult(detected_mood, keywords) ==
  [mood |-> detected_mood,
   keywords |-> keywords,
   inspiration_text |-> InspirationOf(detected_mood),
   color_palette |-> detected_mood]

FallbackOfLower(description_lower) ==
  The({FallbackResult(detected_mood, keywords) :
         detected_mood \in {DetectMood(description_lower, 1, "modern", 0)},
         keywords \in {ExtractKeywords(description_lower)}})

\* Lines 217-267.
analyze_mood_fallback(description) ==
  The({FallbackOfLower(description_lower) : description_lower \in {Lower(description)}})

----------------------------------------------------------------------------
\* analyze_mood_with_ai: the external classifier and the extraction of its
\* JSON answer.
\*
\* The response text is a sequence of tokens: "{" and "}" are the two
\* characters the code searches for, "prose" is any run of other characters
\* that is not JSON, and "members" is a well-formed, non-empty member list of
\* a JSON object (the dict it denotes is the reply's `members`).

MoodLabels ==
  {"romantic", "peaceful", "energetic", "melancholic",
   "nature", "urban", "vintage", "modern"}

EmptyDict == [k \in {} |-> ""]

\* json.loads(json_str) succeeds: with these tokens the only JSON documents
\* are the objects "{}" and "{" members "}".
JsonLoadsOk(json_str) ==
  \/ json_str = <<"{", "}">>
  \/ json_str = <<"{", "members", "}">>

\* json.loads(json_str) for a document that parses
JsonLoads(json_str, members) ==
  IF Len(json_str) = 3 THEN members ELSE EmptyDict

\* A variant of LoadOrFallback that answers a parse error with the fixed
\* default result instead of the keyword heuristic of the description.
LoadOrDefault(description, json_str, members) ==
  IF JsonLoadsOk(json_str)
  THEN JsonLoads(json_str, members)
  ELSE FallbackResult("modern", DefaultKeywords)

\* lines 195-197: json.loads of the extracted text; a parse error is caught
\* by the except clause of line 208
LoadOrFallback(description, json_str, members) ==
  IF JsonLoadsOk(json_str)
  THEN JsonLoads(json_str, members)
  ELSE analyze_mood_fallback(description)

\* lines 192-200
ExtractJson(description, result_text, json_start, json_end, members) ==
  IF json_start # -1 /\ json_end # -1
  THEN The({LoadOrFallback(description, json_str, members) :
              json_str \in {Slice(result_text, json_start, json_end)}})
  ELSE analyze_mood_fallback(description)

\* Lines 158-215. reply is what requests.post does:
\*   outcome "connection_error" | "timeout" | "response";
\*   for a response: status_code, body ("not_json": response.json() raises,
\*   "no_response_key": a JSON object without "response", "ok"), text, members.
analyze_mood_with_ai(description, reply) ==
  IF reply.outcome = "connection_error" THEN analyze_mood_fallback(description)
  ELSE IF reply.outcome # "response" THEN analyze_mood_fallback(description)
  ELSE IF reply.status_code = 200
  THEN IF reply.body # "ok"
       THEN analyze_mood_fallback(description)    \* except Exception
       ELSE The({ExtractJson(description, reply.text, json_start, json_end, reply.members) :
                   json_start \in {Find(reply.text, "{")},
                   json_end \in {RFind(reply.text, "}") + 1}})
  ELSE analyze_mood_fallback(description)

----------------------------------------------------------------------------
\* get_color_name: the color namer.

HexDigits == <<"0","1","2","3","4","5","6","7","8","9","A","B","C","D","E","F">>

\* int(s, 16) succeeds for a non-empty run of hex digits of either case
HexChars == Range(HexDigits) \cup Range(Lower(HexDigits))
IsHex(s) == Len(s) > 0 /\ \A i \in 1..Len(s) : s[i] \in HexChars

HexVal(c) == The({IndexIn(HexDigits, upper) - 1 : upper \in {UpperCh(c)}})

\* int(s, 16)
RECURSIVE Int16(_)
Int16(s) ==
  IF Len(s) = 0 THEN 0
  ELSE 16 * Int16(SubSeq(s, 1, Len(s) - 1)) + HexVal(s[Len(s)])

\* the three channels hex_color[1:3], hex_color[3:5], hex_color[5:7]
Channels(hex_color) ==
  <<Slice(hex_color, 1, 3), Slice(hex_color, 3, 5), Slice(hex_color, 5, 7)>>

\* (r - r2) ** 2 + (g - g2) ** 2 + (b - b2) ** 2, the square of `distance`.
\* The code compares the float square roots; on integers up to 3 * 255^2 the
\* float square root is strictly increasing and n ** 0.5 < 100 exactly when
\* n < 10000, so comparing squares is the same comparison.
Distance2(rgb, rgb2) ==
  (rgb[1] - rgb2[1]) * (rgb[1] - rgb2[1])
  + (rgb[2] - rgb2[2]) * (rgb[2] - rgb2[2])
  + (rgb[3] - rgb2[3]) * (rgb[3] - rgb2[3])

\* r, g, b of lines 374-376 and 384-386
Rgb(hex_color) ==
  <<Int16(Slice(hex_color, 1, 3)), Int16(Slice(hex_color, 3, 5)), Int16(Slice(hex_color, 5, 7))>>

\* A variant of BelowThreshold that admits the distance 100 itself.
AtOrBelowThreshold(min_distance2) == min_distance2 <= 100 * 100

\* min_distance < 100
BelowThreshold(min_distance2) == min_distance2 < 100 * 100

\* The loop over color_map.items(): i is the next entry, min_distance2 the
\* square of min_distance with -1 for float('inf'); a later entry replaces
\* the closest one only when strictly nearer.
RECURSIVE ClosestColor(_, _, _, _)
CloserColor(rgb, i, min_distance2, closest_color, distance2) ==
  IF min_distance2 = -1 \/ distance2 < min_distance2
  THEN ClosestColor(rgb, i + 1, distance2, color_map[i].name)
  ELSE ClosestColor(rgb, i + 1, min_distance2, closest_color)
ClosestColor(rgb, i, min_distance2, closest_color) ==
  IF i > Len(color_map)
  THEN IF min_distance2 # -1 /\ BelowThreshold(min_distance2) THEN closest_color ELSE <<>>
  ELSE The({CloserColor(rgb, i, min_distance2, closest_color, distance2) :
              distance2 \in {Distance2(rgb, Rgb(color_map[i].hex))}})

\* lines 367-396, for the normalized "#..." text
NameOfNormalized(hex_color) ==
  IF \E i \in 1..Len(color_map) : color_map[i].hex = hex_color
  THEN color_map[CHOOSE i \in 1..Len(color_map) : color_map[i].hex = hex_color].name
  ELSE IF \A k \in 1..3 : IsHex(Channels(hex_color)[k])
  THEN The({ClosestColor(rgb, 1, -1, <<>>) : rgb \in {Rgb(hex_color)}})
  ELSE <<>>                                   \* except: return ""

\* lines 360-365, for the upper-cased text
Normalized(upper) ==
  <<"#">> \o (IF StartsWith(upper, <<"#">>) THEN Tail(upper) ELSE upper)

\* Lines 335-396.
get_color_name(hex_color) ==
  The({NameOfNormalized(normalized) :
         normalized \in {The({Normalized(upper) : upper \in {Upper(hex_color)}})}})

----------------------------------------------------------------------------
\* The random module. A draw is a fraction rnd / RandSteps of the range,
\* rnd in 0..RandSteps, so that both ends of every range are drawn.

RandSteps == 6

RandDraws == 0..RandSteps

\* random.choice(seq)
random_choice(seq, rnd) == seq[1 + (rnd * (Len(seq) - 1)) \div RandSteps]

\* random.randint(a, b), both ends included
random_randint(a, b, rnd) == a + (rnd * (b - a)) \div RandSteps

\* random.shuffle(seq): every reordering of seq
Shuffles(seq) ==
  LET perms == {p \in [1..Len(seq) -> 1..Len(seq)] :
                  \A i, j \in 1..Len(seq) : p[i] = p[j] => i = j}
  IN  {[i \in 1..Len(seq) |-> seq[p[i]]] : p \in perms}

----------------------------------------------------------------------------
\* generate_themed_image and generate_ai_image: the image fallback chain.
\*
\* What the environment does to one generation attempt:
\*   pipeline        "bitmap" or "raises": what sd_pipeline(...) (or the PNG
\*                   encoding after it) does if it is invoked;
\*   themed_raises   whether the try block of generate_themed_image raises;
\*   rnd             the draw of the one random call the attempt makes.
SlotEnvs ==
  {[pipeline |-> "bitmap", themed_raises |-> FALSE, rnd |-> 0]}
  \cup [pipeline : {"raises"}, themed_raises : BOOLEAN, rnd : RandDraws]

PicsumUrl(seed) == [base |-> "https://picsum.photos/512/512?random=", seed |-> seed]
DataUrl(img_str) == [base |-> "data:image/png;base64,", img_str |-> img_str]

\* A variant of SelectCategory whose loop does not stop at the first match:
\* the last matching category is selected.
SelectCategoryLast(keywords, i) ==
  IF \E k \in i..Len(category_map) :
       \E j \in 1..Len(category_map[k].words) : category_map[k].words[j] \in Range(keywords)
  THEN category_map[CHOOSE k \in i..Len(category_map) :
         /\ \E j \in 1..Len(category_map[k].words) :
              category_map[k].words[j] \in Range(keywords)
         /\ \A m \in (k + 1)..Len(category_map) :
              \A j \in 1..Len(category_map[m].words) :
                category_map[m].words[j] \notin Range(keywords)].category
  ELSE "nature"

\* the first category of category_map, in declaration order, one of whose
\* words is among the tokens; "nature" when there is none
RECURSIVE SelectCategory(_, _)
SelectCategory(keywords, i) ==
  IF i > Len(category_map) THEN "nature"
  ELSE IF \E j \in 1..Len(category_map[i].words) :
            category_map[i].words[j] \in Range(keywords)
       THEN category_map[i].category
       ELSE SelectCategory(keywords, i + 1)

SeedsOf(category) ==
  category_seeds[CHOOSE i \in 1..Len(category_seeds) :
                   category_seeds[i].category = category].seeds

\* f"Themed {selected_category} image"
ThemedSource(category) ==
  CASE category = "nature" -> "Themed nature image"
    [] category = "urban" -> "Themed urban image"
    [] category = "romantic" -> "Themed romantic image"
    [] category = "peaceful" -> "Themed peaceful image"
    [] category = "energetic" -> "Themed energetic image"
    [] category = "vintage" -> "Themed vintage image"
    [] category = "modern" -> "Themed modern image"

\* lines 468-486, for the selected category
ThemedResult(prompt, selected_category, env) ==
  [url |-> PicsumUrl(random_choice(SeedsOf(selected_category), env.rnd)),
   prompt |-> prompt,
   source |-> ThemedSource(selected_category),
   category |-> selected_category]

\* A variant of generate_themed_image whose except clause draws the seed of
\* the random placeholder from 1..1000.
generate_themed_image_low_seed(prompt, style, env) ==
  IF env.themed_raises
  THEN [url |-> PicsumUrl(random_randint(1, 1000, env.rnd)),
        prompt |-> prompt,
        source |-> "Fallback random image"]
  ELSE The({ThemedResult(prompt, selected_category, env) :
              selected_category \in
                {The({SelectCategory(keywords, 1) :
                        keywords \in {Split(Lower(prompt))}})}})

\* Lines 444-494.
generate_themed_image(prompt, style, env) ==
  IF env.themed_raises
  THEN [url |-> PicsumUrl(random_randint(1000, 9999, env.rnd)),
        prompt |-> prompt,
        source |-> "Fallback random image"]
  ELSE The({ThemedResult(prompt, selected_category, env) :
              selected_category \in
                {The({SelectCategory(keywords, 1) :
                        keywords \in {Split(Lower(prompt))}})}})

\* the test of line 410, negated: the model is invoked
InvokesPipeline(pipeline) == pipeline # "None"

\* f"{prompt}, {style} style, high quality, detailed, beautiful, masterpiece"
EnhancedPrompt(prompt, style) ==
  prompt \o <<","," ">> \o style
  \o <<" ","s","t","y","l","e",","," ","h","i","g","h"," ","q","u","a","l","i","t","y",","," ","d","e","t","a","i","l","e","d",","," ","b","e","a","u","t","i","f","u","l",","," ","m","a","s","t","e","r","p","i","e","c","e">>

\* Lines 402-442.
generate_ai_image(prompt, style, pipeline, env) ==
  IF ~InvokesPipeline(pipeline) THEN generate_themed_image(prompt, style, env)
  ELSE IF env.pipeline = "raises" THEN generate_themed_image(prompt, style, env)
  ELSE [url |-> DataUrl("img_str"),
        prompt |-> EnhancedPrompt(prompt, style),
        source |-> "Local Stable Diffusion",
        model |-> "runwayml/stable-diffusion-v1-5"]

----------------------------------------------------------------------------
\* generate_multiple_images_with_colors: the image compositor.

\* inspiration
InspirationWord == <<"i","n","s","p","i","r","a","t","i","o","n">>
\* realistic
Realistic == <<"r","e","a","l","i","s","t","i","c">>

\* color_names.append(color_name) if color_name
NamedOnly(color_name) == IF Len(color_name) > 0 THEN <<color_name>> ELSE <<>>

\* the loop of lines 276-280
RECURSIVE ColorNames(_)
ColorNames(color_palette) ==
  IF Len(color_palette) = 0 THEN <<>>
  ELSE The({NamedOnly(color_name) : color_name \in {get_color_name(Head(color_palette))}})
       \o ColorNames(Tail(color_palette))

SearchQuery(keywords) ==
  IF Len(keywords) > 0 THEN Join(<<" ">>, Take(keywords, 3)) ELSE InspirationWord

ColorDescription(color_palette) ==
  Join(<<",", " ">>, Take(ColorNames(color_palette), 2))

\* prompt_variations[i % len(prompt_variations)]
SlotPrompt(search_query, color_description, i) ==
  search_query \o <<",", " ">> \o color_description
  \o prompt_suffixes[(i % Len(prompt_suffixes)) + 1]

AltDescription(keywords) ==
  IF Len(keywords) > 0 THEN keywords[1] ELSE InspirationWord

\* lines 301-307
AiImage(keywords, i, result) ==
  [id |-> [prefix |-> "ai_", i |-> i],
   urls |-> [regular |-> result.url],
   alt_description |-> AltDescription(keywords),
   user |-> [name |-> "AI Generated"],
   source |-> result.source]

\* lines 311-318
ThemedImage(keywords, i, themed_result) ==
  [id |-> [prefix |-> "themed_", i |-> i],
   urls |-> [regular |-> themed_result.url],
   alt_description |-> AltDescription(keywords),
   user |-> [name |-> "Themed Image"],
   source |-> themed_result.source]

\* lines 299-318: generate_ai_image catches every exception, so its result
\* never is an exception and the except clause is never entered
TryAiImage(keywords, i, prompt, result, env) ==
  IF "exception" \notin DOMAIN result
  THEN AiImage(keywords, i, result)
  ELSE ThemedImage(keywords, i, generate_themed_image(prompt, Realistic, env))

\* One pass of the loop body, lines 287-318, for the prompt of the slot.
SlotImage(keywords, i, prompt, pipeline, env) ==
  The({TryAiImage(keywords, i, prompt, result, env) :
         result \in {generate_ai_image(prompt, Realistic, pipeline, env)}})

\* A variant of RangeOf that stops one slot early.
RangeOfShort(count) == 0..(count - 2)

\* range(count)
RangeOf(count) == 0..(count - 1)

\* the loop of lines 286-318; envs[i] is the environment of slot i
ComposeSlots(keywords, search_query, color_description, count, pipeline, envs) ==
  [k \in 1..Cardinality(RangeOf(count)) |->
     The({SlotImage(keywords, k - 1, prompt, pipeline, envs[k - 1]) :
            prompt \in {SlotPrompt(search_query, color_description, k - 1)}})]

\* Lines 269-320. With keywords a list of strings and color_palette a list of
\* strings nothing in the body raises, so the except clause of lines 322-333
\* is not entered.
generate_multiple_images_with_colors(keywords, color_palette, count, pipeline, envs) ==
  The({ComposeSlots(keywords, search_query, color_description, count, pipeline, envs) :
         search_query \in {SearchQuery(keywords)},
         color_description \in {ColorDescription(color_palette)}})

\* Lines 398-400.
generate_multiple_images(keywords, count, pipeline, envs) ==
  generate_multiple_images_with_colors(keywords, <<>>, count, pipeline, envs)

----------------------------------------------------------------------------
\* initialize_stable_diffusion, lines 44-83. fail_at names the call that
\* raises: "from_pretrained" (line 56), "from_config" (line 65), "to"
\* (line 68) or "none". sd_pipeline is assigned by line 56 and again by
\* line 68; line 65 changes the scheduler of the pipeline already assigned.

FailPoints == {"none", "from_pretrained", "from_config", "to"}

\* The device of line 51 only chooses the dtype and whether the attention
\* is replaced (whose failure lines 72-76 swallow): "ready" on any device.
PipelineAfterInit(pipeline, fail_at) ==
  CASE fail_at = "from_pretrained" -> pipeline
    [] fail_at = "from_config" -> "loaded"
    [] fail_at = "to" -> "scheduled"
    [] OTHER -> "ready"

\* the value initialize_stable_diffusion returns
InitReturns(fail_at) == fail_at = "none"

----------------------------------------------------------------------------
\* The request handlers.

Restrict(f, keys) == [k \in (DOMAIN f) \cap keys |-> f[k]]

\* MOOD_COLORS[mood]
VariantsOf(mood) ==
  MOOD_COLORS[CHOOSE i \in 1..Len(MOOD_COLORS) : MOOD_COLORS[i].mood = mood].variants

\* A variant of MoodPalettes whose default is the first entry of MOOD_COLORS.
MoodPalettesFirst(mood) ==
  IF \E i \in 1..Len(MOOD_COLORS) : MOOD_COLORS[i].mood = mood
  THEN VariantsOf(mood)
  ELSE MOOD_COLORS[1].variants

\* MOOD_COLORS.get(mood, MOOD_COLORS["modern"])
MoodPalettes(mood) ==
  IF \E i \in 1..Len(MOOD_COLORS) : MOOD_COLORS[i].mood = mood
  THEN VariantsOf(mood)
  ELSE VariantsOf("modern")

\* HTTPException(status_code=500, detail=f"Internal server error: {str(e)}")
\* for e = KeyError(key); str(KeyError('mood')) is "'mood'".
KeyErrorResponse(key) ==
  [status |-> 500,
   detail |-> CASE key = "mood" -> "Internal server error: 'mood'"
                [] key = "keywords" -> "Internal server error: 'keywords'"
                [] key = "inspiration_text" -> "Internal server error: 'inspiration_text'"]

\* the default count of generate_multiple_images_with_colors (line 269)
DefaultCount == 5

\* what the handler did at line 518
Composed(keywords, color_palette, count, images) ==
  [keywords |-> keywords, color_palette |-> color_palette,
   count |-> count, images |-> images]

\* lines 520-525, with the images of line 518
MoodBoard(mood_analysis, color_palette, images) ==
  IF "inspiration_text" \notin DOMAIN mood_analysis
  THEN [response |-> KeyErrorResponse("inspiration_text"),
        trace |-> [mood_analysis |-> mood_analysis,
                   color_palette |-> color_palette,
                   compositor |-> Composed(mood_analysis.keywords, color_palette,
                                           DefaultCount, images)]]
  ELSE [response |-> [status |-> 200,
                      images |-> images,
                      color_palette |-> color_palette,
                      inspiration_text |-> mood_analysis.inspiration_text,
                      mood_analysis |-> mood_analysis],
        trace |-> [mood_analysis |-> mood_analysis,
                   color_palette |-> color_palette,
                   compositor |-> Composed(mood_analysis.keywords, color_palette,
                                           DefaultCount, images)]]

\* lines 517-518, with the palette of line 515
WithPalette(mood_analysis, color_palette, pipeline, envs) ==
  IF "keywords" \notin DOMAIN mood_analysis
  THEN [response |-> KeyErrorResponse("keywords"),
        trace |-> [mood_analysis |-> mood_analysis,
                   color_palette |-> color_palette]]
  ELSE The({MoodBoard(mood_analysis, color_palette, images) :
              images \in {generate_multiple_images_with_colors(
                            mood_analysis.keywords, color_palette, DefaultCount,
                            pipeline, envs)}})

\* lines 512-515, with the classifier's result of line 510
WithMood(mood_analysis, rnd, pipeline, envs) ==
  IF "mood" \notin DOMAIN mood_analysis
  THEN [response |-> KeyErrorResponse("mood"),
        trace |-> [mood_analysis |-> mood_analysis]]
  ELSE The({WithPalette(mood_analysis, color_palette, pipeline, envs) :
              color_palette \in {random_choice(MoodPalettes(mood_analysis.mood), rnd)}})

\* Lines 505-527. The result is the response together with what the handler
\* computed on the way: the classifier's result, the palette selected at
\* line 515 and the arguments and result of the call of line 518. A KeyError
\* is caught at line 526 and answered with status 500. request.style is not
\* used.
analyze_mood(description, reply, rnd, pipeline, envs) ==
  The({WithMood(mood_analysis, rnd, pipeline, envs) :
         mood_analysis \in {analyze_mood_with_ai(description, reply)}})

SearchResult(keywords, count, images) ==
  [response |-> [status |-> 200, images |-> images],
   trace |-> [compositor |-> Composed(keywords, <<>>, count, images)]]

SearchKeywords(keywords, count, pipeline, envs) ==
  The({SearchResult(keywords, count, images) :
         images \in {generate_multiple_images(keywords, count, pipeline, envs)}})

\* Lines 529-537.
search_images(query, count, pipeline, envs) ==
  The({SearchKeywords(keywords, count, pipeline, envs) : keywords \in {Split(query)}})

\* Lines 539-546.
generate_image(prompt, style, pipeline, env) ==
  [response |-> [status |-> 200, result |-> generate_ai_image(prompt, style, pipeline, env)],
   trace |-> EmptyDict]

CategoriesOf(table) == [i \in 1..Len(table) |-> table[i].category]

PromptsOf(category) ==
  prompt_categories[CHOOSE i \in 1..Len(prompt_categories) :
                      prompt_categories[i].category = category].prompts

\* A variant of get_example_prompts that reports a category drawn
\* independently of the one whose prompts it returns.
get_example_prompts_mixed(current_time, rnd, shuffled) ==
  [status |-> 200,
   prompts |-> Take(shuffled, 5),
   category |-> random_choice(CategoriesOf(prompt_categories), RandSteps - rnd),
   timestamp |-> current_time]

\* Lines 561-636: prompt_categories is built anew by every call, so the
\* shuffle reorders a list no other call sees. Nothing in the try block
\* raises, so the static prompts of lines 638-651 are never returned.
get_example_prompts(current_time, rnd, shuffled) ==
  LET selected_category == random_choice(CategoriesOf(prompt_categories), rnd)
      selected_prompts == Take(shuffled, 5)
  IN  [status |-> 200,
       prompts |-> selected_prompts,
       category |-> selected_category,
       timestamp |-> current_time]

----------------------------------------------------------------------------
\* The inputs the requests are drawn from.

\* romantic, golden, I
Vocabulary ==
  << <<"r","o","m","a","n","t","i","c">>,
     <<"g","o","l","d","e","n">>,
     <<"I">> >>

\* every text of at most n vocabulary words separated by single spaces
RECURSIVE WordLists(_)
WordLists(n) ==
  IF n = 0 THEN {<<>>}
  ELSE WordLists(n - 1)
       \cup {Append(ws, Vocabulary[i]) : ws \in WordLists(n - 1), i \in 1..Len(Vocabulary)}

Descriptions == {Join(<<" ">>, ws) : ws \in WordLists(MaxWords)}

\* I want a romantic candlelit dinner
ScenarioDescription ==
  <<"I"," ","w","a","n","t"," ","a"," ","r","o","m","a","n","t","i","c"," ","c","a","n","d","l","e","l","i","t"," ","d","i","n","n","e","r">>

\* the descriptions sent to POST /api/analyze-mood
HandlerDescriptions == {ScenarioDescription, <<"t","h","e"," ","g","o","l","d","e","n"," ","s","e","a">>,
     <<"M","o","d","e","r","n"," ","c","i","t","y">>}

\* What the classifier can put in a JSON object: all four fields with a
\* known or an unknown mood, or an object that lacks some of mood, keywords
\* and inspiration_text.
AiDict(mood) ==
  [mood |-> mood, keywords |-> <<<<"f","o","r","e","s","t">>, <<"c","a","l","m">>>>,
   inspiration_text |-> "A sentence of the classifier", color_palette |-> mood]

AiDicts ==
  {AiDict("romantic"), AiDict("cozy")}
  \cup {Restrict(AiDict("romantic"), keys) :
          keys \in {{"keywords", "inspiration_text", "color_palette"},
                    {"mood", "inspiration_text", "color_palette"},
                    {"mood", "keywords", "color_palette"},
                    {"color_palette"}}}

ReplyTokens == {"{", "}", "prose", "members"}

\* every response text of at most n tokens
RECURSIVE Texts(_)
Texts(n) ==
  IF n = 0 THEN {<<>>}
  ELSE Texts(n - 1) \cup {Append(t, tok) : t \in Texts(n - 1), tok \in ReplyTokens}

NoReply(outcome) ==
  [outcome |-> outcome, status_code |-> 0, body |-> "none", text |-> <<>>, members |-> EmptyDict]

BodyReply(status_code, body) ==
  [outcome |-> "response", status_code |-> status_code, body |-> body,
   text |-> <<>>, members |-> EmptyDict]

TextReply(text, members) ==
  [outcome |-> "response", status_code |-> 200, body |-> "ok",
   text |-> text, members |-> members]

FailedReplies ==
  {NoReply("connection_error"), NoReply("timeout"),
   BodyReply(500, "ok"), BodyReply(404, "not_json"),
   BodyReply(200, "not_json"), BodyReply(200, "no_response_key")}

\* a text without the token "members" denotes no dict
TextReplies(texts) ==
  {TextReply(t, d) : t \in {u \in texts : "members" \in Range(u)}, d \in AiDicts}
  \cup {TextReply(t, EmptyDict) : t \in {u \in texts : "members" \notin Range(u)}}

Replies == FailedReplies \cup TextReplies(Texts(MaxTokens))

\* the replies the classifier gives to POST /api/analyze-mood
HandlerReplies ==
  {NoReply("connection_error"), BodyReply(500, "ok"), BodyReply(200, "no_response_key")}
  \cup TextReplies({<<"prose">>, <<"{", "}">>, <<"{", "members", "}">>,
                    <<"prose", "{", "members", "}", "prose">>})

\* the environments of the slots, numbered
NumSlotEnvs == 1 + 2 * (RandSteps + 1)
SlotEnv(e) ==
  IF e = 0 THEN [pipeline |-> "bitmap", themed_raises |-> FALSE, rnd |-> 0]
  ELSE [pipeline |-> "raises", themed_raises |-> ((e - 1) % 2 = 1), rnd |-> (e - 1) \div 2]

\* all assignments of environments to the slots of a request
AllEnvs(count) == [RangeOf(count) -> SlotEnvs]

\* The random draws and the failures of one POST /api/analyze-mood, from one
\* seed: the draw of the palette, and slots that run through the numbered
\* environments from the seed on.
RequestSeeds == 0..(NumSlotEnvs - 1)
PaletteDraw(seed) == seed % (RandSteps + 1)
WindowEnvs(seed, count) == [i \in RangeOf(count) |-> SlotEnv((seed + i) % NumSlotEnvs)]

\* "", "forest calm", "I want a romantic candlelit dinner", "city",
\* "calm forest"
Queries ==
  { <<>>,
    <<"f","o","r","e","s","t"," ","c","a","l","m">>,
    ScenarioDescription,
    <<"c","i","t","y">>,
    <<"c","a","l","m"," ","f","o","r","e","s","t">> }

\* "city", "a calm forest", "Modern", "romantic city", "sunset dinner"
Prompts ==
  { <<"c","i","t","y">>,
    <<"a"," ","c","a","l","m"," ","f","o","r","e","s","t">>,
    <<"M","o","d","e","r","n">>,
    <<"r","o","m","a","n","t","i","c"," ","c","i","t","y">>,
    <<"s","u","n","s","e","t"," ","d","i","n","n","e","r">> }

\* "realistic" (the default) and "vintage"
Styles == {Realistic, <<"v","i","n","t","a","g","e">>}

Counts == (-1)..MaxCount

CurrentTimes == {1700000000, 1700000001}

----------------------------------------------------------------------------
\* The server as a state machine.
\*
\*   sd_pipeline     the global of line 42: "None", or how far the assigned
\*                   pipeline got ("loaded", "scheduled", "ready")
\*   init_status     "not_run", or what initialize_stable_diffusion returned
\*                   ("succeeded" for True, "failed" for False)
\*   call            the request or function call being answered, with its
\*                   inputs; [op |-> "idle"] between requests
\*   response        its response or result
\*   trace           what the handler computed on the way
\*   pipeline_calls  how many times the call invoked sd_pipeline(...)

VARIABLES sd_pipeline, init_status, call, response, trace, pipeline_calls

vars == <<sd_pipeline, init_status, call, response, trace, pipeline_calls>>

Idle == [op |-> "idle"]
NoResponse == [status |-> 0]

Init ==
  /\ sd_pipeline = "None"
  /\ init_status = "not_run"
  /\ call = Idle
  /\ response = NoResponse
  /\ trace = EmptyDict
  /\ pipeline_calls = 0

\* startup_event, lines 86-89: once, at any moment before or between requests
Startup ==
  /\ call.op = "idle"
  /\ init_status = "not_run"
  /\ \E fail_at \in FailPoints :
       /\ sd_pipeline' = PipelineAfterInit(sd_pipeline, fail_at)
       /\ init_status' = IF InitReturns(fail_at) THEN "succeeded" ELSE "failed"
  /\ UNCHANGED <<call, response, trace, pipeline_calls>>

\* the number of slots whose generate_ai_image invoked the model
Invocations(pipeline, count) ==
  IF InvokesPipeline(pipeline) THEN Cardinality(RangeOf(count)) ELSE 0

\* POST /api/analyze-mood
AnalyzeMood ==
  /\ call.op = "idle"
  /\ \E description \in HandlerDescriptions, reply \in HandlerReplies,
        seed \in RequestSeeds :
       \E r \in {analyze_mood(description, reply, PaletteDraw(seed), sd_pipeline,
                               WindowEnvs(seed, DefaultCount))} :
           /\ call' = [op |-> "analyze_mood", description |-> description,
                       reply |-> reply, seed |-> seed]
           /\ response' = r.response
           /\ trace' = r.trace
           /\ pipeline_calls' = IF "compositor" \in DOMAIN r.trace
                                THEN Invocations(sd_pipeline, DefaultCount) ELSE 0
  /\ UNCHANGED <<sd_pipeline, init_status>>

\* GET /api/images
SearchImages ==
  /\ call.op = "idle"
  /\ \E query \in Queries, count \in Counts :
       \E envs \in AllEnvs(count) :
         \E r \in {search_images(query, count, sd_pipeline, envs)} :
             /\ call' = [op |-> "search_images", query |-> query,
                         count |-> count, envs |-> envs]
             /\ response' = r.response
             /\ trace' = r.trace
             /\ pipeline_calls' = Invocations(sd_pipeline, count)
  /\ UNCHANGED <<sd_pipeline, init_status>>

\* POST /api/generate-image
GenerateImage ==
  /\ call.op = "idle"
  /\ \E prompt \in Prompts, style \in Styles, env \in SlotEnvs :
       \E r \in {generate_image(prompt, style, sd_pipeline, env)} :
           /\ call' = [op |-> "generate_image", prompt |-> prompt,
                       style |-> style, env |-> env]
           /\ response' = r.response
           /\ trace' = r.trace
           /\ pipeline_calls' = Invocations(sd_pipeline, 1)
  /\ UNCHANGED <<sd_pipeline, init_status>>

\* GET /api/example-prompts
GetExamplePrompts ==
  /\ call.op = "idle"
  /\ \E current_time \in CurrentTimes, rnd \in RandDraws :
       \E shuffled \in Shuffles(PromptsOf(random_choice(CategoriesOf(prompt_categories), rnd))) :
             /\ call' = [op |-> "get_example_prompts"]
             /\ response' = get_example_prompts(current_time, rnd, shuffled)
  /\ trace' = EmptyDict
  /\ pipeline_calls' = 0
  /\ UNCHANGED <<sd_pipeline, init_status>>

\* the response is sent and the server waits for the next request
Return ==
  /\ call.op # "idle"
  /\ call' = Idle
  /\ response' = NoResponse
  /\ trace' = EmptyDict
  /\ pipeline_calls' = 0
  /\ UNCHANGED <<sd_pipeline, init_status>>

Next ==
  \/ Startup
  \/ AnalyzeMood
  \/ SearchImages
  \/ GenerateImage
  \/ GetExamplePrompts
  \/ Return

Spec == Init /\ [][Next]_vars

----------------------------------------------------------------------------
\* The classifier operation called on its own, over every description and
\* every reply of the bounded sets.

CallAnalyzeMoodWithAi ==
  /\ call.op = "idle"
  /\ \E description \in Descriptions, reply \in Replies :
       /\ call' = [op |-> "analyze_mood_with_ai", description |-> description,
                   reply |-> reply]
       /\ response' = [result |-> analyze_mood_with_ai(description, reply)]
  /\ UNCHANGED <<sd_pipeline, init_status, trace, pipeline_calls>>

NextClassify == CallAnalyzeMoodWithAi \/ Return

SpecClassify == Init /\ [][NextClassify]_vars

----------------------------------------------------------------------------
\* The color namer called on its own, over 6-hex-digit colors with and
\* without the leading '#', in upper and in lower case.

\* the values a channel takes: the ends, the channels of "#FE0101" and
\* "#123456", and values around distance 100 from black
ChannelSamples == {0, 1, 18, 52, 86, 99, 100, 128, 254, 255}

\* the two hex digits of a channel value
Hex2(n) == <<HexDigits[(n \div 16) + 1], HexDigits[(n % 16) + 1]>>

HexText(rgb, hash, lower) ==
  (IF hash THEN <<"#">> ELSE <<>>)
  \o (IF lower THEN Lower(Hex2(rgb[1]) \o Hex2(rgb[2]) \o Hex2(rgb[3]))
               ELSE Hex2(rgb[1]) \o Hex2(rgb[2]) \o Hex2(rgb[3]))

CallGetColorName ==
  /\ call.op = "idle"
  /\ \E r \in ChannelSamples, g \in ChannelSamples, b \in ChannelSamples,
        hash \in BOOLEAN, lower \in BOOLEAN :
       \E hex_color \in {HexText(<<r, g, b>>, hash, lower)} :
         /\ call' = [op |-> "get_color_name", hex_color |-> hex_color, rgb |-> <<r, g, b>>]
         /\ response' = [result |-> get_color_name(hex_color)]
  /\ UNCHANGED <<sd_pipeline, init_status, trace, pipeline_calls>>

NextColor == CallGetColorName \/ Return

SpecColor == Init /\ [][NextColor]_vars

----------------------------------------------------------------------------
\* The keyword heuristic called on its own, over descriptions of a few words
\* chosen for what the heuristic looks at: a keyword its list holds twice
\* ("energetic"), a keyword of one label ("calm"), a keyword of two labels
\* ("flower": romantic and nature), a stop word of more than 3 letters
\* ("want"), a keyword of 3 letters ("sea") and two tokens joined by a
\* character that is no word character ("well-lit").

MaxFallbackWords == 4

\* Energetic, calm, flower, want, sea, well-lit
FallbackVocabulary ==
  << <<"E","n","e","r","g","e","t","i","c">>,
     <<"c","a","l","m">>,
     <<"f","l","o","w","e","r">>,
     <<"w","a","n","t">>,
     <<"s","e","a">>,
     <<"w","e","l","l","-","l","i","t">> >>

\* every list of at most n words of the vocabulary
RECURSIVE FallbackWordLists(_)
FallbackWordLists(n) ==
  IF n = 0 THEN {<<>>}
  ELSE FallbackWordLists(n - 1)
       \cup {Append(ws, FallbackVocabulary[i]) :
               ws \in FallbackWordLists(n - 1), i \in 1..Len(FallbackVocabulary)}

FallbackDescriptions == {Join(<<" ">>, ws) : ws \in FallbackWordLists(MaxFallbackWords)}

CallAnalyzeMoodFallback ==
  /\ call.op = "idle"
  /\ \E description \in FallbackDescriptions :
       /\ call' = [op |-> "analyze_mood_fallback", description |-> description]
       /\ response' = [result |-> analyze_mood_fallback(description)]
  /\ UNCHANGED <<sd_pipeline, init_status, trace, pipeline_calls>>

NextFallback == CallAnalyzeMoodFallback \/ Return

SpecFallback == Init /\ [][NextFallback]_vars

----------------------------------------------------------------------------
\* The properties.

\* The reply is an answer with status 200 whose text holds a JSON object from
\* its first '{' to its last '}'.
HoldsObject(text) ==
  \E i, j \in 1..Len(text) :
    /\ i <= j
    /\ text[i] = "{" /\ \A k \in 1..(i - 1) : text[k] # "{"
    /\ text[j] = "}" /\ \A k \in (j + 1)..Len(text) : text[k] # "}"
    /\ JsonLoadsOk(SubSeq(text, i, j))

AnswersObject(reply) ==
  /\ reply.outcome = "response"
  /\ reply.status_code = 200
  /\ reply.body = "ok"
  /\ HoldsObject(reply.text)

\* the object such a reply holds
ObjectOf(reply) ==
  IF "members" \in Range(reply.text) THEN reply.members ELSE EmptyDict

RequiredFields == {"mood", "keywords", "inspiration_text"}

\* C1: whatever the external classifier does, the mood value of the result
\* of analyze_mood_with_ai is one of the 8 labels (a mood outside them having
\* been replaced by "modern").
C1_MoodIsOneOfTheLabels ==
  (call.op = "analyze_mood_with_ai" /\ "mood" \in DOMAIN response.result)
    => response.result.mood \in MoodLabels

\* C2: when the classifier answers with a JSON object that omits mood,
\* keywords or inspiration_text, POST /api/analyze-mood answers 200 and each
\* omitted field has the value analyze_mood_fallback gives for the
\* description.
C2_MissingFieldsAreFilled ==
  (/\ call.op = "analyze_mood"
   /\ AnswersObject(call.reply)
   /\ RequiredFields \ DOMAIN ObjectOf(call.reply) # {})
    => /\ response.status = 200
       /\ \A f \in RequiredFields \ DOMAIN ObjectOf(call.reply) :
            /\ f \in DOMAIN response.mood_analysis
            /\ response.mood_analysis[f] = analyze_mood_fallback(call.description)[f]

\* C3: when the classifier call fails, times out, answers with another status
\* than 200, with a body without "response", or with text that holds no JSON
\* object from its first '{' to its last '}', analyze_mood_with_ai returns
\* exactly analyze_mood_fallback of the description.
C3_FailureGivesTheHeuristic ==
  (call.op = "analyze_mood_with_ai" /\ ~AnswersObject(call.reply))
    => response.result = analyze_mood_fallback(call.description)

\* C3's case: the text has a '{' and no '}', and the heuristic finds the mood
\* "romantic" in the description.
C3_Witness ==
  /\ call.op = "analyze_mood_with_ai"
  /\ call.reply.outcome = "response"
  /\ call.reply.status_code = 200
  /\ "{" \in Range(call.reply.text)
  /\ "}" \notin Range(call.reply.text)
  /\ response.result = analyze_mood_fallback(call.description)
  /\ response.result.mood = "romantic"

\* the three kinds of result: AI generated, themed placeholder, random
\* placeholder
SourceKind(source) ==
  IF source = "Local Stable Diffusion" THEN "ai_generated"
  ELSE IF source \in {"Themed nature image", "Themed urban image",
                      "Themed romantic image", "Themed peaceful image",
                      "Themed energetic image", "Themed vintage image",
                      "Themed modern image"}
  THEN "themed_placeholder"
  ELSE IF source = "Fallback random image" THEN "random_placeholder"
  ELSE "undefined"

KindsOf(images) == {SourceKind(images[k].source) : k \in 1..Len(images)}

\* C4: for a count >= 0, whatever fails in the slots,
\* generate_multiple_images_with_colors returns exactly count results, each
\* with a source of one of the three kinds.
C4_CountResultsOfThreeKinds ==
  ("compositor" \in DOMAIN trace /\ trace.compositor.count >= 0)
    => /\ Len(trace.compositor.images) = trace.compositor.count
       /\ \A k \in 1..Len(trace.compositor.images) :
            /\ "source" \in DOMAIN trace.compositor.images[k]
            /\ SourceKind(trace.compositor.images[k].source) # "undefined"

\* C4's case: 5 slots of which some got a bitmap, some a themed placeholder
\* and some a random placeholder.
C4_Witness ==
  /\ "compositor" \in DOMAIN trace
  /\ trace.compositor.count = 5
  /\ Len(trace.compositor.images) = 5
  /\ KindsOf(trace.compositor.images)
       = {"ai_generated", "themed_placeholder", "random_placeholder"}

\* C5: a result of the compositor has the identifier prefix "ai_" or the
\* attribution "AI Generated" only if its url is an inline data URL, the
\* bitmap the image model returned for the slot.
C5_AiMarkOnlyWithBitmap ==
  "compositor" \in DOMAIN trace
    => \A k \in 1..Len(trace.compositor.images) :
         (\/ trace.compositor.images[k].id.prefix = "ai_"
          \/ trace.compositor.images[k].user.name = "AI Generated")
           => trace.compositor.images[k].urls.regular.base = "data:image/png;base64,"

\* C6: unless initialize_stable_diffusion has run and returned True, no
\* request invokes the image model.
C6_ModelInvokedOnlyAfterInit ==
  init_status # "succeeded" => pipeline_calls = 0

\* generate_ai_image took the path of generate_themed_image
TookThemedPath == sd_pipeline = "None" \/ call.env.pipeline = "raises"

\* C7: generate_ai_image always returns a result with a url; when the
\* construction of the themed placeholder raises, the result is the random
\* placeholder, whose url carries a seed in 1000..9999.
C7_FallbackIsTotal ==
  call.op = "generate_image"
    => /\ response.status = 200
       /\ "url" \in DOMAIN response.result
       /\ (TookThemedPath /\ call.env.themed_raises)
            => /\ response.result.source = "Fallback random image"
               /\ response.result.url.base = "https://picsum.photos/512/512?random="
               /\ response.result.url.seed \in 1000..9999

\* C7's case: the model is loaded and raises, the themed placeholder raises
\* too, and the seed drawn is the upper end of the range.
C7_Witness ==
  /\ call.op = "generate_image"
  /\ sd_pipeline # "None"
  /\ call.env.pipeline = "raises"
  /\ call.env.themed_raises
  /\ response.result.source = "Fallback random image"
  /\ response.result.url.seed = 9999

\* the mood whose variants are selected from
PaletteMood(mood) == IF mood \in MoodLabels THEN mood ELSE "modern"

IsHexColor(c) == Len(c) = 7 /\ c[1] = "#" /\ \A k \in 2..7 : c[k] \in HexChars

\* C8: the palette selected in analyze_mood has exactly 5 colors and is one
\* of the 4 variants of the mood in MOOD_COLORS, of "modern" for a mood that
\* is none of the 8 labels; the response carries that palette and the
\* compositor is called with it.
C8_PaletteIsAVariantOfTheMood ==
  (call.op = "analyze_mood" /\ "color_palette" \in DOMAIN trace)
    => /\ Len(trace.color_palette) = 5
       /\ \A k \in 1..Len(trace.color_palette) : IsHexColor(trace.color_palette[k])
       /\ \E i \in 1..Len(MOOD_COLORS) :
            /\ MOOD_COLORS[i].mood = PaletteMood(trace.mood_analysis.mood)
            /\ Len(MOOD_COLORS[i].variants) = 4
            /\ \E v \in 1..4 : MOOD_COLORS[i].variants[v] = trace.color_palette
       /\ "compositor" \in DOMAIN trace
            => trace.compositor.color_palette = trace.color_palette
       /\ response.status = 200
            => response.color_palette = trace.color_palette

\* C8's case: the classifier's mood is none of the 8 labels and the palette
\* is the last variant of "modern".
C8_Witness ==
  /\ call.op = "analyze_mood"
  /\ response.status = 200
  /\ trace.mood_analysis.mood = "cozy"
  /\ response.color_palette = VariantsOf("modern")[4]
  /\ trace.compositor.color_palette = response.color_palette

\* the channels of the reference entries
color_rgbs == [i \in 1..Len(color_map) |-> Rgb(color_map[i].hex)]

\* the least squared distance from rgb to a reference entry
MinDistance2(rgb) ==
  CHOOSE d \in {Distance2(rgb, color_rgbs[i]) : i \in 1..Len(color_map)} :
    \A i \in 1..Len(color_map) : d <= Distance2(rgb, color_rgbs[i])

\* the names of the entries that are rgb itself
ExactNames(rgb) ==
  {color_map[i].name : i \in {j \in 1..Len(color_map) : color_rgbs[j] = rgb}}

\* the names of the entries at the least distance from rgb
NearestNames(rgb) ==
  {color_map[i].name :
     i \in {j \in 1..Len(color_map) : Distance2(rgb, color_rgbs[j]) = MinDistance2(rgb)}}

\* C9: for a 6-hex-digit color get_color_name returns the name of the entry
\* that matches exactly; without one, the name of an entry at the least RGB
\* distance if that distance is below 100, and "" if it is 100 or more.
\* "#FF0000" and "#FE0101" give "red", "#123456" gives "".
C9_NearestNameBelow100 ==
  call.op = "get_color_name"
    => /\ IF ExactNames(call.rgb) # {}
          THEN response.result \in ExactNames(call.rgb)
          ELSE IF MinDistance2(call.rgb) < 10000
          THEN response.result \in NearestNames(call.rgb)
          ELSE response.result = <<>>
       /\ call.hex_color = <<"#","F","F","0","0","0","0">> => response.result = <<"r","e","d">>
       /\ call.hex_color = <<"#","F","E","0","1","0","1">> => response.result = <<"r","e","d">>
       /\ call.hex_color = <<"#","1","2","3","4","5","6">> => response.result = <<>>

\* C9's case: a color written without '#' whose nearest entry is at
\* distance exactly 100.
C9_Witness ==
  /\ call.op = "get_color_name"
  /\ call.hex_color[1] # "#"
  /\ MinDistance2(call.rgb) = 10000
  /\ response.result = <<>>

KnownCategories ==
  {"romantic", "peaceful", "energetic", "nature", "urban", "vintage", "modern"}

\* C10: every response of GET /api/example-prompts, after any number of
\* calls, has one of the 7 categories and 5 prompts that are a permutation
\* of the 5 prompts of that category.
C10_PromptsArePermutationOfCategory ==
  call.op = "get_example_prompts"
    => /\ response.category \in KnownCategories
       /\ Len(response.prompts) = 5
       /\ \E i \in 1..Len(prompt_categories) :
            /\ prompt_categories[i].category = response.category
            /\ Cardinality(Range(prompt_categories[i].prompts)) = 5
            /\ Range(response.prompts) = Range(prompt_categories[i].prompts)

\* C10's case: the prompts of "modern" in another order than the table's.
C10_Witness ==
  /\ call.op = "get_example_prompts"
  /\ response.category = "modern"
  /\ response.prompts # PromptsOf("modern")
  /\ response.prompts[5] = PromptsOf("modern")[1]

\* the number of the keywords of the label that occur in the lower-cased
\* description
KeywordsFound(i, description_lower) ==
  Cardinality({k \in Range(mood_keywords[i].keywords) : Contains(k, description_lower)})

\* the label with the highest score, the first declared among equals, and
\* "modern" when no keyword occurs
HighestLabel(description_lower) ==
  IF \A i \in 1..Len(mood_keywords) : KeywordsFound(i, description_lower) = 0
  THEN "modern"
  ELSE mood_keywords[CHOOSE i \in 1..Len(mood_keywords) :
         /\ \A j \in 1..Len(mood_keywords) :
              KeywordsFound(j, description_lower) <= KeywordsFound(i, description_lower)
         /\ \A j \in 1..(i - 1) :
              KeywordsFound(j, description_lower) < KeywordsFound(i, description_lower)].mood

\* the fixed sentence of a label
SentenceOf(mood) ==
  CASE mood = "romantic" -> "The dance of love and passion, in harmony with your heart's rhythm"
    [] mood = "peaceful" -> "The silent call of tranquility, soothing your soul"
    [] mood = "energetic" -> "The excitement of energy, reflecting life's dynamic flow"
    [] mood = "melancholic" -> "In the depths of melancholy lies the hidden treasure of beauty"
    [] mood = "nature" -> "The pure beauty of nature, renewing your spirit"
    [] mood = "urban" -> "The modern rhythm of the city, carrying life's dynamic energy"
    [] mood = "vintage" -> "The elegance of the past meets today's creativity"
    [] mood = "modern" -> "The minimal elegance of modernity, exploring the boundaries of creativity"

\* C11: analyze_mood_fallback returns the label most of whose keywords occur
\* in the lower-cased description, the first declared of the labels with the
\* highest number, "modern" when no keyword occurs, and the fixed sentence of
\* the label it returns.
C11_HighestScoreFirstDeclared ==
  call.op = "analyze_mood_fallback"
    => /\ response.result.mood = HighestLabel(Lower(call.description))
       /\ response.result.inspiration_text = SentenceOf(response.result.mood)

\* the positions of the word tokens that are longer than 3 characters and no
\* stop word
Surviving(tokens) ==
  {i \in 1..Len(tokens) :
     /\ Len(tokens[i]) > 3
     /\ tokens[i] \notin {<<"t","h","e">>, <<"a","n","d">>, <<"w","i","t","h">>,
                          <<"f","o","r">>, <<"l","i","k","e">>, <<"f","e","e","l">>,
                          <<"w","a","n","t">>, <<"w","a","n","t","i","n","g">>}}

\* the n-th of a set of positions
NthOf(positions, n) ==
  CHOOSE i \in positions : Cardinality({j \in positions : j < i}) = n - 1

\* the first 3, or all if fewer, of the surviving tokens, in their order
FirstSurviving(tokens) ==
  [n \in 1..(IF Cardinality(Surviving(tokens)) < 3
             THEN Cardinality(Surviving(tokens)) ELSE 3) |->
     tokens[NthOf(Surviving(tokens), n)]]

\* C12: the keywords analyze_mood_fallback returns are the first 3 (or fewer)
\* word tokens of the lower-cased description that are longer than 3
\* characters and no stop word, in their order; ["inspiration", "creative",
\* "design"] when there is none. They are between 1 and 3.
C12_FirstThreeSurvivingTokens ==
  call.op = "analyze_mood_fallback"
    => /\ IF Surviving(FindAllWords(Lower(call.description))) = {}
          THEN response.result.keywords
                 = << <<"i","n","s","p","i","r","a","t","i","o","n">>,
                      <<"c","r","e","a","t","i","v","e">>,
                      <<"d","e","s","i","g","n">> >>
          ELSE response.result.keywords
                 = FirstSurviving(FindAllWords(Lower(call.description)))
       /\ Len(response.result.keywords) \in 1..3

\* C12's case: more than 3 tokens survive and a token that does not stands
\* before the third of them.
C12_Witness ==
  /\ call.op = "analyze_mood_fallback"
  /\ Cardinality(Surviving(FindAllWords(Lower(call.description)))) > 3
  /\ NthOf(Surviving(FindAllWords(Lower(call.description))), 3) > 3
  /\ Len(response.result.keywords) = 3
  /\ response.result.keywords[3] # response.result.keywords[1]

\* the categories in their fixed order
CategoryOrder ==
  <<"nature", "urban", "romantic", "peaceful", "energetic", "vintage", "modern">>

\* the keyword list of the category holds one of the tokens
CategoryMatches(category, tokens) ==
  \E i \in 1..Len(category_map) :
    /\ category_map[i].category = category
    /\ Range(category_map[i].words) \cap Range(tokens) # {}

\* the first category of the order that matches, nature when none does
FirstMatching(tokens) ==
  IF \A n \in 1..Len(CategoryOrder) : ~CategoryMatches(CategoryOrder[n], tokens)
  THEN "nature"
  ELSE CategoryOrder[CHOOSE n \in 1..Len(CategoryOrder) :
         /\ CategoryMatches(CategoryOrder[n], tokens)
         /\ \A m \in 1..(n - 1) : ~CategoryMatches(CategoryOrder[m], tokens)]

\* seed is one of the 5 fixed seeds of the category
IsSeedOf(seed, category) ==
  \E i \in 1..Len(category_seeds) :
    /\ category_seeds[i].category = category
    /\ Len(category_seeds[i].seeds) = 5
    /\ seed \in Range(category_seeds[i].seeds)

\* C13: generate_themed_image, when nothing in it raises, selects the first
\* category of the fixed order whose keyword list holds a whitespace-separated
\* token of the lower-cased prompt, nature when there is none; the seed of
\* the url is one of the 5 seeds of that category and the category field
\* names it.
C13_FirstMatchingCategory ==
  (call.op = "generate_image" /\ TookThemedPath /\ ~call.env.themed_raises)
    => /\ response.result.category = FirstMatching(Split(Lower(call.prompt)))
       /\ response.result.url.base = "https://picsum.photos/512/512?random="
       /\ IsSeedOf(response.result.url.seed, response.result.category)

\* C13's case: the first token matches a later category than the second
\* ("romantic city"), the earlier one is selected and its last seed drawn.
C13_Witness ==
  /\ call.op = "generate_image"
  /\ TookThemedPath
  /\ ~call.env.themed_raises
  /\ CategoryMatches("romantic", Split(Lower(call.prompt)))
  /\ response.result.category = "urban"
  /\ response.result.url.seed = 1000

\* the image model fails in every slot of the call, and no construction of a
\* themed placeholder raises
ModelFailsInEverySlot ==
  /\ sd_pipeline = "None" \/ \A i \in DOMAIN call.envs : call.envs[i].pipeline = "raises"
  /\ \A i \in DOMAIN call.envs : ~call.envs[i].themed_raises

\* the first three keywords
FirstThree(keywords) == SubSeq(keywords, 1, IF Len(keywords) < 3 THEN Len(keywords) ELSE 3)

\* C14: with the image model failing, when one of the first three keywords is
\* a word of the keyword list of a category, every result of
\* generate_multiple_images_with_colors is a themed placeholder of the first
\* category of the fixed order that the first three keywords match, with one
\* of the 5 seeds of that category in its url, wherever the matching keyword
\* stands among the three.
C14_ThemedCategoryOfKeywords ==
  (/\ call.op = "search_images"
   /\ ModelFailsInEverySlot
   /\ \E n \in 1..Len(CategoryOrder) :
        CategoryMatches(CategoryOrder[n], FirstThree(trace.compositor.keywords)))
    => \A k \in 1..Len(trace.compositor.images) :
         /\ trace.compositor.images[k].source
              = ThemedSource(FirstMatching(FirstThree(trace.compositor.keywords)))
         /\ IsSeedOf(trace.compositor.images[k].urls.regular.seed,
                     FirstMatching(FirstThree(trace.compositor.keywords)))
====
